---------------------------- MODULE Spec2Model ----------------------------
(***************************************************************************)
(* A model of the codex-napi bridge (native/codex-napi/src):               *)
(*   lib.rs          the session bridge (CodexSession, NativeCodex)        *)
(*   cloud_tasks.rs  credential resolution (create_backend,                *)
(*                   build_chatgpt_headers) and the environment aggregator *)
(*                   (cloud_tasks_list_environments).                      *)
(* Strings are sequences of one-character strings, so that the string      *)
(* operations of the code (contains, to_lowercase, cmp, split, ...) are    *)
(* computed and not assumed.                                               *)
(***************************************************************************)
EXTENDS Integers, Sequences, FiniteSets, TLC

VARIABLES
    \* ---- session bridge (lib.rs) ----
    session,     \* "none" | "error" | "open": the outcome of the last create_conversation
    configured,  \* the synthetic SessionConfigured event the session was seeded with
    pending,     \* SessionInner.pending: Mutex<VecDeque<Event>>
    emitted,     \* every item the conversation stream has produced so far, in emission order
    nrecv,       \* how many of them conversation.next_event() has handed out
    call,        \* per caller: "idle" | "awaiting" (a next_event suspended on the stream)
    returned,    \* completed next_event calls, in completion order
    concurrent,  \* TRUE once two next_event calls have been in flight together
    registered,  \* whether the manager still holds the conversation (close removes it)
    closed,      \* the last close call: the id it asked the manager to remove, and what it returned
    handle,      \* the submissions conversation.submit_with_id has been given, in order
    submits,     \* completed submit calls, in completion order
    \* ---- credential resolution (cloud_tasks.rs) ----
    config,      \* the CloudTasksConfig of the call
    world,       \* what the call finds outside: home directory, auth.json, AuthManager, CODEX_DEBUG
    backend,     \* the outcome of create_backend(config), NotRun before the call
    headers,     \* the outcome of build_chatgpt_headers(&config), NotRun before the call
    native,      \* the outcome of NativeCodex::new(options), NotRun before the call
    \* ---- environment aggregator (cloud_tasks.rs, cloud_tasks_list_environments) ----
    origins,     \* get_git_origins(): the sorted, deduplicated remote URLs
    envPc,       \* where the call is: "idle", "repo", "merge_repo", "global", "merge_global", "sort", "done"
    oi,          \* the index in origins of the remote the by-repo loop is at
    map,         \* the accumulator HashMap<String, EnvironmentRowNapi>, as its set of rows
    nrows,       \* rows of the current response merged so far
    result,      \* the value returned: NotRun, an error, or Ok(rows)
    merged,      \* what the successful queries reported so far (history)
    \* ---- the decoders called on their own (cloud_tasks.rs) ----
    jwt,         \* the token given to extract_chatgpt_account_id: its segments and its text
    claim,       \* what extract_chatgpt_account_id returned, NotRun before the call
    remote,      \* the URL given to parse_owner_repo: its parts and its text
    owner_repo,  \* what parse_owner_repo returned, NotRun before the call
    \* ---- next_event step by step under the pending-queue lock (lib.rs) ----
    lock,        \* SessionInner.pending's Mutex: None when free, Some(c) while caller c holds the guard
    front,       \* per caller: the front element pop_front has read and not yet taken out
    closing,     \* the close call in flight: "idle" or "removing"
    submitting,  \* the submit call in flight: None, or Some(json) while submit_with_id is awaited
    overtook     \* the operations that completed while a next_event call was suspended (history)

sessVars == <<session, configured, pending, emitted, nrecv, call,
              returned, concurrent, registered, closed>>

credVars == <<config, world, backend, headers, native>>

envVars == <<origins, envPc, oi, map, nrows, result, merged>>

fnVars == <<jwt, claim, remote, owner_repo>>

subVars == <<handle, submits>>

lockVars == <<lock, front, closing, submitting, overtook>>

vars == <<sessVars, subVars, credVars, envVars, fnVars, lockVars>>

\* What the actions of one component leave alone
notSess == <<subVars, credVars, envVars, fnVars, lockVars>>
notCred == <<sessVars, subVars, envVars, fnVars, lockVars>>
notEnv == <<sessVars, subVars, credVars, fnVars, lockVars>>
notFn == <<sessVars, subVars, credVars, envVars, lockVars>>
notSub == <<credVars, envVars, fnVars, lockVars>>
notLock == <<credVars, envVars, fnVars>>

----------------------------------------------------------------------------
(* Bounds *)

\* Items the underlying conversation stream emits during one session.
MaxStream == 3
\* Concurrent callers of next_event on one session.
NumCallers == 2
\* Rows in the response of one environment query.
MaxRows == 2
\* Dot-separated segments of a token given to extract_chatgpt_account_id.
MaxSegments == 4
\* Slashes before the owner and after the repo of a URL given to parse_owner_repo.
MaxSlashes == 1
\* submit calls on one session.
MaxSubmits == 3
\* submit calls on one session where submit runs beside the other operations.
MaxStepSubmits == 1

None == [tag |-> "none"]
Some(v) == [tag |-> "some", val |-> v]

----------------------------------------------------------------------------
(* String helpers (std::str) over sequences of characters *)

\* s[from..] (1-based, may be empty)
Drop(s, k) == SubSeq(s, k + 1, Len(s))
Take(s, k) == SubSeq(s, 1, k)

\* str::starts_with
StartsWith(s, p) == Len(p) <= Len(s) /\ Take(s, Len(p)) = p

\* str::ends_with
EndsWith(s, p) == Len(p) <= Len(s) /\ Drop(s, Len(s) - Len(p)) = p

\* str::find: the 1-based index of the first occurrence of p in s, 0 when there is none
Find(s, p) ==
    LET hits == {i \in 1..(Len(s) - Len(p) + 1) : SubSeq(s, i, i + Len(p) - 1) = p}
    IN  IF hits = {} THEN 0 ELSE CHOOSE i \in hits : \A j \in hits : i <= j

\* str::contains
Contains(s, p) == Find(s, p) # 0

\* The printable ASCII characters in code-point order, from the space (32) on;
\* code point 96 cannot be written in a string and its slot holds its name
Ascii ==
    <<" ", "!", "\"", "#", "$", "%", "&", "'", "(", ")", "*", "+",
       ",", "-", ".", "/", "0", "1", "2", "3", "4", "5", "6", "7",
       "8", "9", ":", ";", "<", "=", ">", "?", "@", "A", "B", "C",
       "D", "E", "F", "G", "H", "I", "J", "K", "L", "M", "N", "O",
       "P", "Q", "R", "S", "T", "U", "V", "W", "X", "Y", "Z", "[",
       "\\", "]", "^", "_", "grave", "a", "b", "c", "d", "e", "f", "g",
       "h", "i", "j", "k", "l", "m", "n", "o", "p", "q", "r", "s",
       "t", "u", "v", "w", "x", "y", "z", "{", "|", "}", "~">>

\* The code point of a character
CodePoints ==
    [c \in {Ascii[i] : i \in 1..Len(Ascii)} |->
        31 + (CHOOSE i \in 1..Len(Ascii) : Ascii[i] = c)]
Code(c) == CodePoints[c]

\* char::to_lowercase (ASCII)
LowerChar(c) ==
    IF Code(c) >= 65 /\ Code(c) <= 90 THEN Ascii[Code(c) + 32 - 31] ELSE c

\* str::to_lowercase
ToLowercase(s) == [i \in 1..Len(s) |-> LowerChar(s[i])]

\* Ord for str: -1 (Less), 0 (Equal), 1 (Greater), byte by byte, a prefix first
RECURSIVE StrCmp(_, _)
StrCmp(a, b) ==
    IF a = <<>> /\ b = <<>> THEN 0
    ELSE IF a = <<>> THEN -1
    ELSE IF b = <<>> THEN 1
    ELSE IF Code(Head(a)) < Code(Head(b)) THEN -1
    ELSE IF Code(Head(a)) > Code(Head(b)) THEN 1
    ELSE StrCmp(Tail(a), Tail(b))

\* str::trim (ASCII white space)
RECURSIVE Trim(_)
Trim(s) ==
    IF s # <<>> /\ Head(s) \in {" ", "\t", "\n", "\r"} THEN Trim(Tail(s))
    ELSE IF s # <<>> /\ s[Len(s)] \in {" ", "\t", "\n", "\r"} THEN Trim(Take(s, Len(s) - 1))
    ELSE s

\* str::trim_start_matches(c)
RECURSIVE TrimStartMatches(_, _)
TrimStartMatches(s, c) ==
    IF s # <<>> /\ Head(s) = c THEN TrimStartMatches(Tail(s), c) ELSE s

\* str::trim_end_matches(p)
RECURSIVE TrimEndMatches(_, _)
TrimEndMatches(s, p) ==
    IF p # <<>> /\ EndsWith(s, p) THEN TrimEndMatches(Take(s, Len(s) - Len(p)), p) ELSE s

\* str::splitn(2, c)
SplitN2(s, c) ==
    LET i == Find(s, <<c>>)
    IN  IF i = 0 THEN <<s>> ELSE <<Take(s, i - 1), Drop(s, i)>>

----------------------------------------------------------------------------
(* The session bridge: lib.rs *)

Callers == 1..NumCallers

StreamClosedText == <<"S","t","r","e","a","m","C","l","o","s","e","d">>

\* Texts err.to_string() can give for a failure of conversation.next_event().
\* The clean-closure sentinel prints as the sentinel text; any other failure
\* prints an arbitrary message, which may quote the sentinel text.
ClosedMessages == {StreamClosedText}
ErrorMessages == {<<"b","o","o","m">>, <<"i","o",":">> \o StreamClosedText}

\* What conversation.next_event() can yield: Ok(event) or Err(err).
\* kind "closed" is the clean closure of the stream, kind "error" any other failure.
StreamItems ==
    [kind : {"event"}, ser : BOOLEAN]
    \cup [kind : {"closed"}, msg : ClosedMessages]
    \cup [kind : {"error"}, msg : ErrorMessages]

\* An Event: n = 0 is the synthetic configured event, n = k the k-th item of the stream.
\* ser: whether serde_json can encode it.
Event(n, ser) == [n |-> n, ser |-> ser]

\* serde_json::to_string(&event)
Json(e) == <<"json", e.n>>

\* serialize_event: Ok(json) or Err(reason)
serialize_event(e) ==
    IF e.ser THEN [ok |-> TRUE, val |-> Json(e)]
    ELSE [ok |-> FALSE, err |-> <<"s","e","r","d","e">>]

\* serialize_event(event).map(Some)
MapSome(r) == IF r.ok THEN [ok |-> TRUE, val |-> Some(r.val)] ELSE r

\* VecDeque::pop_front: the queue that is left
PopFrontKeeps(q) == q
PopFront(q) == Tail(q)

\* VecDeque::from([session_configured_event])
SeedForgets(e) == <<>>
Seed(e) == <<e>>

\* The Err arm of next_event: Ok(None) for the sentinel, Err(message) otherwise
MapStreamError(msg) ==
    IF Contains(msg, StreamClosedText)
    THEN [ok |-> TRUE, val |-> None]
    ELSE [ok |-> FALSE, err |-> msg]

\* The match on conversation.next_event().await
MapStreamItem(item, n) ==
    IF item.kind = "event"
    THEN MapSome(serialize_event(Event(n, item.ser)))
    ELSE MapStreamError(item.msg)

\* The items of the stream not yet handed out
Chan == Drop(emitted, nrecv)

InFlight == {c \in Callers : call[c] = "awaiting"}

\* No close call has returned yet
NotClosed == [kind |-> "not run"]

\* The credential component at rest (no call made)
CredOff ==
    /\ config = "off"
    /\ world = "off"
    /\ backend = "off"
    /\ headers = "off"
    /\ native = "off"

SessInit ==
    /\ session = "none"
    /\ configured = Event(0, TRUE)
    /\ pending = <<>>
    /\ emitted = <<>>
    /\ nrecv = 0
    /\ call = [c \in Callers |-> "idle"]
    /\ returned = <<>>
    /\ concurrent = FALSE
    /\ registered = FALSE
    /\ closed = NotClosed

\* NativeCodex::create_conversation: Config::load_with_cli_overrides or
\* manager.new_conversation may fail; otherwise the session is seeded.
CreateConversationFails ==
    /\ session = "none"
    /\ session' = "error"
    /\ UNCHANGED <<configured, pending, emitted, nrecv, call, returned,
                   concurrent, registered, closed>>
    /\ UNCHANGED notSess

CreateConversation ==
    /\ session \in {"none", "error"}
    /\ \E ser \in BOOLEAN :
          /\ configured' = Event(0, ser)
          /\ pending' = Seed(Event(0, ser))
    /\ session' = "open"
    /\ registered' = TRUE
    /\ UNCHANGED <<emitted, nrecv, call, returned, concurrent, closed>>
    /\ UNCHANGED notSess

\* CodexSession::next_event up to its first suspension: the pop under the lock,
\* and either the return of the popped event or the await on the stream.
NextEventReadsStream(c) ==
    /\ session = "open"
    /\ call[c] = "idle"
    /\ call' = [call EXCEPT ![c] = "awaiting"]
    /\ concurrent' = (concurrent \/ InFlight # {})
    /\ UNCHANGED <<pending, returned>>
    /\ UNCHANGED <<session, configured, emitted, nrecv, registered, closed>>
    /\ UNCHANGED notSess

NextEvent(c) ==
    /\ session = "open"
    /\ call[c] = "idle"
    /\ IF pending # <<>>
       THEN /\ returned' = Append(returned,
                  [src |-> "pending", n |-> Head(pending).n,
                   res |-> MapSome(serialize_event(Head(pending)))])
            /\ pending' = PopFront(pending)
            /\ UNCHANGED <<call, concurrent>>
       ELSE /\ call' = [call EXCEPT ![c] = "awaiting"]
            /\ concurrent' = (concurrent \/ InFlight # {})
            /\ UNCHANGED <<pending, returned>>
    /\ UNCHANGED <<session, configured, emitted, nrecv, registered, closed>>
    /\ UNCHANGED notSess

\* conversation.next_event().await completes for a suspended caller
ConversationNextEvent(c) ==
    /\ call[c] = "awaiting"
    /\ Chan # <<>>
    /\ returned' = Append(returned,
          [src |-> "stream", n |-> nrecv + 1,
           res |-> MapStreamItem(Head(Chan), nrecv + 1)])
    /\ nrecv' = nrecv + 1
    /\ call' = [call EXCEPT ![c] = "idle"]
    /\ UNCHANGED <<session, configured, pending, emitted, concurrent,
                   registered, closed>>
    /\ UNCHANGED notSess

\* The conversation engine produces its next item
StreamEmit ==
    /\ session = "open"
    /\ Len(emitted) < MaxStream
    /\ \E item \in StreamItems : emitted' = Append(emitted, item)
    /\ UNCHANGED <<session, configured, pending, nrecv, call, returned,
                   concurrent, registered, closed>>
    /\ UNCHANGED notSess

\* SessionInner.conversation_id: the id new_conversation gave the session
conversation_id == "conversation"

\* The value close returns, whatever remove_conversation gave back
CloseResultOfRemoval(removed) ==
    IF removed THEN [ok |-> TRUE] ELSE [ok |-> FALSE, err |-> "not found"]
CloseResult(removed) == [ok |-> TRUE]

\* CodexSession::close: manager.remove_conversation(id).await; Ok(())
\* remove_conversation gives back the conversation when the manager held it.
\* closed.left is the length of the pending queue the call leaves behind.
CloseDrainsQueue ==
    /\ session = "open"
    /\ registered' = FALSE
    /\ pending' = <<>>
    /\ closed' = [kind |-> "returned", asked |-> conversation_id,
                  removed |-> registered, res |-> CloseResult(registered),
                  left |-> 0]
    /\ UNCHANGED <<session, configured, emitted, nrecv, call,
                   returned, concurrent>>
    /\ UNCHANGED notSess

Close ==
    /\ session = "open"
    /\ registered' = FALSE
    /\ closed' = [kind |-> "returned", asked |-> conversation_id,
                  removed |-> registered, res |-> CloseResult(registered),
                  left |-> Len(pending)]
    /\ UNCHANGED <<session, configured, pending, emitted, nrecv, call,
                   returned, concurrent>>
    /\ UNCHANGED notSess

SessNext ==
    \/ CreateConversationFails
    \/ CreateConversation
    \/ \E c \in Callers : NextEvent(c)
    \/ \E c \in Callers : ConversationNextEvent(c)
    \/ StreamEmit
    \/ Close

----------------------------------------------------------------------------
\* The submission_json texts given to submit
SubmissionJsons == {"not json", "{\"id\":\"1\"}", "{\"id\":\"2\"}"}

\* serde_json::from_str::<Submission>(&submission_json)
SubmissionFromStr(json) ==
    CASE json = "{\"id\":\"1\"}" -> [ok |-> TRUE, val |-> [id |-> "1"]]
      [] json = "{\"id\":\"2\"}" -> [ok |-> TRUE, val |-> [id |-> "2"]]
      [] OTHER -> [ok |-> FALSE, err |-> "expected value at line 1 column 1"]

\* What conversation.submit_with_id(submission).await can give: Ok(()) or Err(err)
HandleOutcomes == {[ok |-> TRUE], [ok |-> FALSE, err |-> "internal agent died"]}

\* .map_err(|err| napi::Error::from_reason(err.to_string()))
MapErr(r) == IF r.ok THEN [ok |-> TRUE] ELSE [ok |-> FALSE, err |-> r.err]

\* conversation.submit_with_id(submission): the handle is given the submission
SubmitWithIdTwice(h, submission) == Append(Append(h, submission), submission)
SubmitWithId(h, submission) == Append(h, submission)

SubInit ==
    /\ handle = <<>>
    /\ submits = <<>>

\* CodexSession::submit
Submit ==
    /\ session = "open"
    /\ Len(submits) < MaxSubmits
    /\ \E json \in SubmissionJsons, out \in HandleOutcomes :
          LET submission == SubmissionFromStr(json)
          IN  IF ~submission.ok
              THEN /\ submits' = Append(submits,
                         [json |-> json, out |-> None, res |-> MapErr(submission)])
                   /\ handle' = handle
              ELSE /\ handle' = SubmitWithId(handle, submission.val)
                   /\ submits' = Append(submits,
                         [json |-> json, out |-> Some(out), res |-> MapErr(out)])
    /\ UNCHANGED sessVars
    /\ UNCHANGED notSub

\* A session used for submissions while its stream is silent
SubNext ==
    \/ CreateConversationFails
    \/ CreateConversation
    \/ \E c \in Callers : NextEvent(c)
    \/ Close
    \/ Submit

----------------------------------------------------------------------------
(* next_event step by step: lib.rs, the pending-queue lock and the calls beside it *)

\* Mutex::lock: the caller gets the guard when no caller holds it, and blocks otherwise
LockNeverBlocks(l) == TRUE
LockFree(l) == l = None

\* The guard at the end of the if-let statement of next_event: dropped, whether
\* pop_front gave an event (found) or not
GuardKeptAcrossAwait(l, found) == IF found THEN None ELSE l
GuardDropped(l, found) == None

\* The callers inside next_event before its suspension
InLockSection == {c \in Callers : call[c] \in {"locking", "locked", "popping"}}

\* The callers suspended on conversation.next_event().await
Suspended == {c \in Callers : call[c] = "awaiting"}

\* The operations known to have completed beside a suspended next_event
Overtakes(op, others) == IF others # {} THEN overtook \cup {op} ELSE overtook

\* No step-by-step call in flight
LockOff ==
    /\ lock = None
    /\ front = [c \in Callers |-> None]
    /\ closing = "idle"
    /\ submitting = None
    /\ overtook = {}

\* A caller enters next_event and asks for the lock
NextEventCall(c) ==
    /\ session = "open"
    /\ call[c] = "idle"
    /\ call' = [call EXCEPT ![c] = "locking"]
    /\ concurrent' = (concurrent \/ InLockSection # {})
    /\ UNCHANGED <<session, configured, pending, emitted, nrecv, returned,
                   registered, closed>>
    /\ UNCHANGED <<subVars, lockVars, notLock>>

\* self.inner.pending.lock().unwrap()
AcquireLock(c) ==
    /\ call[c] = "locking"
    /\ LockFree(lock)
    /\ lock' = Some(c)
    /\ call' = [call EXCEPT ![c] = "locked"]
    /\ UNCHANGED <<session, configured, pending, emitted, nrecv, returned,
                   concurrent, registered, closed>>
    /\ UNCHANGED <<front, closing, submitting, overtook>>
    /\ UNCHANGED <<subVars, notLock>>

\* pop_front, first half: the front element is read, None when the queue is empty
ReadFront(c) ==
    /\ call[c] = "locked"
    /\ front' = [front EXCEPT ![c] = IF pending # <<>> THEN Some(Head(pending)) ELSE None]
    /\ call' = [call EXCEPT ![c] = "popping"]
    /\ UNCHANGED <<session, configured, pending, emitted, nrecv, returned,
                   concurrent, registered, closed>>
    /\ UNCHANGED <<lock, closing, submitting, overtook>>
    /\ UNCHANGED <<subVars, notLock>>

\* pop_front, second half, and the rest of the if-let statement: the element is
\* taken out and returned serialized, or the queue was empty and the call goes on
\* to await the stream; the guard is dropped either way.
TakeFront(c) ==
    /\ call[c] = "popping"
    /\ LET found == front[c] # None
       IN  /\ pending' = IF found /\ pending # <<>> THEN PopFront(pending) ELSE pending
           /\ IF found
              THEN /\ returned' = Append(returned,
                         [src |-> "pending", n |-> front[c].val.n,
                          res |-> MapSome(serialize_event(front[c].val))])
                   /\ call' = [call EXCEPT ![c] = "idle"]
              ELSE /\ returned' = returned
                   /\ call' = [call EXCEPT ![c] = "awaiting"]
           /\ lock' = GuardDropped(lock, found)
    /\ front' = [front EXCEPT ![c] = None]
    /\ overtook' = Overtakes("next_event", Suspended \ {c})
    /\ UNCHANGED <<session, configured, emitted, nrecv, concurrent,
                   registered, closed>>
    /\ UNCHANGED <<closing, submitting>>
    /\ UNCHANGED <<subVars, notLock>>

\* CodexSession::close is entered: manager.remove_conversation(id) is awaited
CloseCall ==
    /\ session = "open"
    /\ closing = "idle"
    /\ closing' = "removing"
    /\ UNCHANGED <<lock, front, submitting, overtook>>
    /\ UNCHANGED <<sessVars, subVars, notLock>>

\* remove_conversation returns and close returns Ok(())
CloseReturn ==
    /\ closing = "removing"
    /\ closing' = "idle"
    /\ registered' = FALSE
    /\ closed' = [kind |-> "returned", asked |-> conversation_id,
                  removed |-> registered, res |-> CloseResult(registered),
                  left |-> Len(pending)]
    /\ overtook' = Overtakes("close", Suspended)
    /\ UNCHANGED <<session, configured, pending, emitted, nrecv, call,
                   returned, concurrent>>
    /\ UNCHANGED <<lock, front, submitting>>
    /\ UNCHANGED <<subVars, notLock>>

\* CodexSession::submit is entered: the text is decoded, and either the call
\* returns the decoding error or the submission is handed to submit_with_id
SubmitCall ==
    /\ session = "open"
    /\ submitting = None
    /\ Len(submits) < MaxStepSubmits
    /\ \E json \in SubmissionJsons :
          LET submission == SubmissionFromStr(json)
          IN  IF ~submission.ok
              THEN /\ submits' = Append(submits,
                         [json |-> json, out |-> None, res |-> MapErr(submission)])
                   /\ UNCHANGED <<handle, submitting>>
              ELSE /\ handle' = SubmitWithId(handle, submission.val)
                   /\ submitting' = Some(json)
                   /\ submits' = submits
    /\ UNCHANGED <<lock, front, closing, overtook>>
    /\ UNCHANGED <<sessVars, notLock>>

\* submit_with_id returns and submit returns its outcome
SubmitReturn ==
    /\ submitting # None
    /\ \E out \in HandleOutcomes :
          submits' = Append(submits,
              [json |-> submitting.val, out |-> Some(out), res |-> MapErr(out)])
    /\ submitting' = None
    /\ overtook' = Overtakes("submit", Suspended)
    /\ UNCHANGED <<lock, front, closing, handle>>
    /\ UNCHANGED <<sessVars, notLock>>

\* A session whose stream is silent, its calls taken step by step
LockNext ==
    \/ CreateConversationFails
    \/ CreateConversation
    \/ \E c \in Callers : NextEventCall(c)
    \/ \E c \in Callers : AcquireLock(c)
    \/ \E c \in Callers : ReadFront(c)
    \/ \E c \in Callers : TakeFront(c)
    \/ CloseCall
    \/ CloseReturn
    \/ SubmitCall
    \/ SubmitReturn

\* The scheduler runs every step that stays possible: a thread that can take the
\* lock takes it, a thread holding it goes on, and the collaborators of close and
\* submit return.
LockFairness ==
    /\ \A c \in Callers : WF_vars(AcquireLock(c))
    /\ \A c \in Callers : WF_vars(ReadFront(c))
    /\ \A c \in Callers : WF_vars(TakeFront(c))
    /\ WF_vars(CloseReturn)
    /\ WF_vars(SubmitReturn)

----------------------------------------------------------------------------
(* Credential resolution: cloud_tasks.rs, create_backend and build_chatgpt_headers *)

\* Option::or_else
OrElse(a, b) == IF a.tag = "some" THEN a ELSE b

\* str::split(c): the segments of s between the occurrences of the character c
RECURSIVE Split(_, _)
Split(s, c) ==
    LET i == Find(s, <<c>>)
    IN  IF i = 0 THEN <<s>> ELSE <<Take(s, i - 1)>> \o Split(Drop(s, i), c)

\* The base64url alphabet (the characters of it the model's tokens use)
Base64UrlChars == {"e", "y", "J", "K", "N", "0", "X", "-", "_"}

\* base64 URL_SAFE_NO_PAD.decode: the bytes, named by their canonical encoding, or an error
Base64UrlNoPadDecode(seg) ==
    IF (\A i \in 1..Len(seg) : seg[i] \in Base64UrlChars) /\ Len(seg) % 4 # 1
    THEN [ok |-> TRUE, val |-> seg]
    ELSE [ok |-> FALSE]

AuthClaim == "https://api.openai.com/auth"
AccountClaim == "chatgpt_account_id"

JStr(x) == [t |-> "string", s |-> x]
JNum == [t |-> "number"]
JObj(key, v) == [t |-> "object", key |-> key, val |-> v]

\* The payloads that decode to JSON, with the document each decodes to
PayloadJ == <<"e", "y", "J">>
PayloadK == <<"e", "y", "K">>
PayloadN == <<"e", "y", "N">>
Payload0 == <<"e", "y", "0">>
AcctJ == <<"a", "J">>
AcctK == <<"a", "K">>

\* serde_json::from_slice
JsonFromSlice(bytes) ==
    CASE bytes = PayloadJ -> [ok |-> TRUE, val |-> JObj(AuthClaim, JObj(AccountClaim, JStr(AcctJ)))]
      [] bytes = PayloadK -> [ok |-> TRUE, val |-> JObj(AuthClaim, JObj(AccountClaim, JStr(AcctK)))]
      [] bytes = PayloadN -> [ok |-> TRUE, val |-> JObj(AuthClaim, JObj(AccountClaim, JNum))]
      [] bytes = Payload0 -> [ok |-> TRUE, val |-> JObj("sub", JStr(<<"x">>))]
      [] OTHER -> [ok |-> FALSE]

\* serde_json::Value::get(key)
JsonGet(v, key) == IF v.t = "object" /\ v.key = key THEN Some(v.val) ELSE None

\* extract_chatgpt_account_id
extract_chatgpt_account_id(token) ==
    LET parts == Split(token, ".")
    IN  IF ~(Len(parts) >= 3 /\ parts[1] # <<>> /\ parts[2] # <<>> /\ parts[3] # <<>>)
        THEN None
        ELSE LET bytes == Base64UrlNoPadDecode(parts[2]) IN
             IF ~bytes.ok THEN None
             ELSE LET v == JsonFromSlice(bytes.val) IN
                  IF ~v.ok THEN None
                  ELSE LET auth == JsonGet(v.val, AuthClaim) IN
                       IF auth.tag = "none" THEN None
                       ELSE LET id == JsonGet(auth.val, AccountClaim) IN
                            IF id.tag = "some" /\ id.val.t = "string"
                            THEN Some(id.val.s) ELSE None

\* reqwest HeaderValue::from_str(s).is_ok(): no control character in s
HeaderValueOk(s) == \A i \in 1..Len(s) : s[i] \notin {"\n", "\r"}

Bearer == <<"B", "e", "a", "r", "e", "r", " ">>

JwtOf(payload) == <<"h", ".">> \o payload \o <<".", "s">>

\* The strings the model draws its inputs from
ConfigTokens == {<<>>, <<"c">>, <<"c", "\n">>}
ConfigAccounts == {<<"1">>, <<"1", "\n">>}
FileTokens == {<<>>, <<"f">>, JwtOf(PayloadJ)}
FileAccounts == {<<"2">>}
ManagerTokens == {<<>>, <<"m">>, JwtOf(PayloadK)}
ManagerAccounts == {<<"3">>}
UserAgents == {<<"u">>}

Opt(S) == {None} \cup {Some(x) : x \in S}

\* CloudTasksConfig (base_url is read by HttpClient::new only: see world.http_ok)
Configs ==
    [bearer_token : Opt(ConfigTokens),
     chatgpt_account_id : Opt(ConfigAccounts),
     user_agent : Opt(UserAgents),
     mock : Opt({TRUE}),
     codex_home : Opt({"home"})]

\* try_read_auth_json(auth_file): Err, or an AuthDotJson with tokens: Option<TokenData>
AuthFiles ==
    {[ok |-> FALSE]}
    \cup [ok : {TRUE},
          tokens : Opt([access_token : FileTokens, account_id : Opt(FileAccounts)])]

\* AuthManager::shared(home, false).auth(): None, or a CodexAuth with its
\* get_token() result and its get_account_id()
TokenResults == {[ok |-> FALSE]} \cup [ok : {TRUE}, val : ManagerTokens]
Managers == Opt([token : TokenResults, account_id : Opt(ManagerAccounts)])

Worlds ==
    [http_ok : BOOLEAN,     \* HttpClient::new(&config.base_url) succeeds
     debug : BOOLEAN,       \* CODEX_DEBUG = 1
     find_home_ok : BOOLEAN,\* config::find_codex_home() succeeds
     dir_exists : BOOLEAN,  \* std::fs::metadata(&codex_home_path) succeeds
     auth_file : AuthFiles,
     manager : Managers]

\* The client under construction and the collaborators read so far
NewClient ==
    [bearer |-> None, account |-> None, user_agent |-> None, calls |-> <<>>, diag |-> 0]

WithBearer(cl, tok) == [cl EXCEPT !.bearer = Some(tok)]
WithAccount(cl, acc) == IF acc.tag = "some" THEN [cl EXCEPT !.account = acc] ELSE cl
Called(cl, what) == [cl EXCEPT !.calls = Append(@, what)]
\* if debug { eprintln!(..) }
DiagTakesAccount(cl, w) ==
    IF w.debug THEN [cl EXCEPT !.diag = @ + 1, !.account = None] ELSE cl
Diag(cl, w) == IF w.debug THEN [cl EXCEPT !.diag = @ + 1] ELSE cl

\* auth.tokens.as_ref().map(|t| t.access_token.clone()).unwrap_or_default()
AccessToken(auth) == IF auth.tokens.tag = "some" THEN auth.tokens.val.access_token ELSE <<>>
\* auth.tokens.as_ref().and_then(|t| t.account_id.clone())
FileAccountId(auth) == IF auth.tokens.tag = "some" THEN auth.tokens.val.account_id ELSE None

\* create_backend, lines 289-312: the persisted record (auth.json)
BackendFileStep(cl0, w) ==
    LET cl == Called(cl0, "auth.json") IN
    IF ~w.auth_file.ok THEN cl
    ELSE LET token == AccessToken(w.auth_file) IN
         IF token = <<>> THEN Diag(cl, w)
         ELSE LET account_id == OrElse(FileAccountId(w.auth_file),
                                       extract_chatgpt_account_id(token))
              IN  Diag(WithAccount(Diag(WithBearer(cl, token), w), account_id), w)

\* create_backend, lines 314-334: the AuthManager fallback
BackendManagerStep(cl0, w) ==
    LET cl == Called(cl0, "AuthManager") IN
    IF w.manager.tag = "none" THEN cl
    ELSE LET auth == w.manager.val
             got == auth.token.ok /\ auth.token.val # <<>>
             cl1 == IF got THEN Diag(WithBearer(cl, auth.token.val), w) ELSE Diag(cl, w)
             maybe_token == IF got THEN Some(auth.token.val) ELSE None
             acc == OrElse(auth.account_id,
                           IF maybe_token.tag = "some"
                           THEN extract_chatgpt_account_id(maybe_token.val)
                           ELSE None)
         IN  IF acc.tag = "some" THEN Diag(WithAccount(cl1, acc), w) ELSE cl1

\* create_backend, lines 277-336: no explicit bearer token
BackendManagedAuth(cl0, cfg, w) ==
    LET cl1 == WithAccount(cl0, cfg.chatgpt_account_id) IN
    IF cfg.codex_home.tag = "none" /\ ~w.find_home_ok
    THEN [kind |-> "error", calls |-> <<"find_codex_home">>]
    ELSE LET cl2 == Diag(IF cfg.codex_home.tag = "none"
                         THEN Called(cl1, "find_codex_home") ELSE cl1, w)
             cl3 == Called(cl2, "metadata")
         IN  IF ~w.dir_exists THEN [kind |-> "http", client |-> cl3]
             ELSE [kind |-> "http",
                   client |-> BackendManagerStep(BackendFileStep(cl3, w), w)]

\* create_backend, lines 272-276: the explicit bearer token
BackendExplicitDropsAccount(cl, cfg) == WithBearer(cl, cfg.bearer_token.val)
BackendExplicit(cl, cfg) ==
    WithAccount(WithBearer(cl, cfg.bearer_token.val), cfg.chatgpt_account_id)

\* create_backend
create_backend(cfg, w) ==
    IF cfg.mock.tag = "some" /\ cfg.mock.val THEN [kind |-> "mock"]
    ELSE IF ~w.http_ok THEN [kind |-> "error", calls |-> <<>>]
    ELSE LET cl0 == Diag(NewClient, w)
             r == IF cfg.bearer_token.tag = "some"
                  THEN [kind |-> "http", client |-> BackendExplicit(cl0, cfg)]
                  ELSE BackendManagedAuth(cl0, cfg, w)
         IN  IF r.kind = "http"
             THEN [r EXCEPT !.client.user_agent = cfg.user_agent]
             ELSE r

\* headers.insert(AUTHORIZATION, "Bearer {token}") when that is a header value
InsertAuthorization(h, token) ==
    IF HeaderValueOk(Bearer \o token) THEN [h EXCEPT !.bearer = Some(token)] ELSE h

\* headers.insert("ChatGPT-Account-Id", acc) when there is one and it is a header value
InsertAccount(h, acc) ==
    IF acc.tag = "some" /\ HeaderValueOk(acc.val) THEN [h EXCEPT !.account = acc] ELSE h

DefaultUserAgent == <<"c","o","d","e","x","-","t","s","-","s","d","k">>

\* build_chatgpt_headers
build_chatgpt_headers(cfg, w) ==
    LET ua == IF cfg.user_agent.tag = "some" THEN cfg.user_agent.val ELSE DefaultUserAgent
        h0 == [NewClient EXCEPT
                 !.user_agent = Some(IF HeaderValueOk(ua) THEN ua ELSE DefaultUserAgent)]
    IN  IF cfg.bearer_token.tag = "some"
        THEN InsertAccount(InsertAuthorization(h0, cfg.bearer_token.val),
                           cfg.chatgpt_account_id)
        ELSE IF cfg.codex_home.tag = "none" /\ ~w.find_home_ok
        THEN Called(h0, "find_codex_home")
        ELSE LET h1 == Called(IF cfg.codex_home.tag = "none"
                              THEN Called(h0, "find_codex_home") ELSE h0, "auth.json")
                 token == IF w.auth_file.ok THEN AccessToken(w.auth_file) ELSE <<>>
             IN  IF w.auth_file.ok /\ token # <<>>
                 THEN InsertAccount(InsertAuthorization(h1, token),
                                    OrElse(FileAccountId(w.auth_file),
                                           extract_chatgpt_account_id(token)))
                 ELSE LET h2 == Called(h1, "AuthManager") IN
                      IF w.manager.tag = "some" /\ w.manager.val.token.ok
                         /\ w.manager.val.token.val # <<>>
                      THEN LET tok == w.manager.val.token.val IN
                           InsertAccount(InsertAuthorization(h2, tok),
                                         OrElse(w.manager.val.account_id,
                                                extract_chatgpt_account_id(tok)))
                      ELSE h2

NotRun == [kind |-> "not run"]

CredInit ==
    /\ config \in Configs
    /\ world \in Worlds
    /\ backend = NotRun
    /\ headers = NotRun
    /\ native = NotRun

\* A backend operation (cloud_tasks_list, _create, ...) resolves its credentials
CallCreateBackend ==
    /\ backend = NotRun
    /\ backend' = create_backend(config, world)
    /\ UNCHANGED <<config, world, headers, native>>
    /\ UNCHANGED notCred

\* cloud_tasks_list_environments builds its request headers
CallBuildHeaders ==
    /\ headers = NotRun
    /\ headers' = [kind |-> "headers", h |-> build_chatgpt_headers(config, world)]
    /\ UNCHANGED <<config, world, backend, native>>
    /\ UNCHANGED notCred

\* NativeCodexOptions.codex_home
NativeOptions == Opt({"home"})

\* NativeCodex::new(options): the home directory is the override or found,
\* and the error of find_codex_home is returned
NativeCodexNew(codex_home, w) ==
    IF codex_home.tag = "none" /\ ~w.find_home_ok
    THEN [kind |-> "error", codex_home |-> codex_home]
    ELSE [kind |-> "ok", codex_home |-> codex_home]

NewNativeCodex ==
    /\ native = NotRun
    /\ \E codex_home \in NativeOptions : native' = NativeCodexNew(codex_home, world)
    /\ UNCHANGED <<config, world, backend, headers>>
    /\ UNCHANGED notCred

CredNext == CallCreateBackend \/ CallBuildHeaders \/ NewNativeCodex

----------------------------------------------------------------------------
(* The environment aggregator: cloud_tasks.rs, cloud_tasks_list_environments *)

GitSuffix == <<".", "g", "i", "t">>
SshGithub == <<"@", "g", "i", "t", "h", "u", "b", ".", "c", "o", "m", ":">>
SshScheme == <<"s", "s", "h", ":", "/", "/">>
GithubPrefixes ==
    <<<<"h", "t", "t", "p", "s", ":", "/", "/", "g", "i", "t", "h", "u", "b", ".", "c", "o", "m", "/">>,
      <<"h", "t", "t", "p", ":", "/", "/", "g", "i", "t", "h", "u", "b", ".", "c", "o", "m", "/">>,
      <<"g", "i", "t", ":", "/", "/", "g", "i", "t", "h", "u", "b", ".", "c", "o", "m", "/">>,
      <<"g", "i", "t", "h", "u", "b", ".", "c", "o", "m", "/">>>>

\* rest.trim_start_matches('/').trim_end_matches(".git").splitn(2, '/'), both parts required
OwnerRepoOf(rest) ==
    LET parts == SplitN2(TrimEndMatches(TrimStartMatches(rest, "/"), GitSuffix), "/")
    IN  IF Len(parts) = 2 THEN Some(<<parts[1], parts[2]>>) ELSE None

\* parse_owner_repo
parse_owner_repo(url) ==
    LET t == Trim(url)
        s == IF StartsWith(t, SshScheme) THEN Drop(t, Len(SshScheme)) ELSE t
        idx == Find(s, SshGithub)
        matching == {k \in 1..Len(GithubPrefixes) : StartsWith(s, GithubPrefixes[k])}
    IN  IF idx # 0 THEN OwnerRepoOf(Drop(s, idx - 1 + Len(SshGithub)))
        ELSE IF matching # {}
        THEN LET k == CHOOSE k \in matching : \A j \in matching : k <= j
             IN  OwnerRepoOf(Drop(s, Len(GithubPrefixes[k])))
        ELSE None

\* format!("{}/{}", owner, repo)
RepoHint(pair) == pair[1] \o <<"/">> \o pair[2]

\* The remote URLs a repository may be configured with
UrlSsh == <<"g", "i", "t", "@", "g", "i", "t", "h", "u", "b", ".", "c", "o", "m", ":", "o", "/", "r", ".", "g", "i", "t">>
UrlHttps == <<"h", "t", "t", "p", "s", ":", "/", "/", "g", "i", "t", "h", "u", "b", ".", "c", "o", "m", "/", "p", "/", "q">>
UrlOther == <<"h", "t", "t", "p", "s", ":", "/", "/", "g", "i", "t", "l", "a", "b", ".", "c", "o", "m", "/", "o", "/", "r">>
\* The remotes of a repository: none, one or two on GitHub, one elsewhere
RemoteSets == {{}, {UrlSsh}, {UrlOther, UrlSsh}, {UrlSsh, UrlHttps}}

\* v.sort(): the strings of a set in ascending order
RECURSIVE SortStrings(_)
SortStrings(S) ==
    IF S = {} THEN <<>>
    ELSE LET m == CHOOSE x \in S : \A y \in S : StrCmp(x, y) <= 0
         IN  <<m>> \o SortStrings(S \ {m})

\* The ids and labels the backend may report
EnvIds == {<<"a">>, <<"b">>}
EnvLabels == {<<"Z", "e", "d">>, <<"a", "l", "p", "h", "a">>}

\* CodeEnvironment: one row of a response
CodeEnvironments ==
    [id : EnvIds, label : Opt(EnvLabels), is_pinned : Opt(BOOLEAN)]

\* Option<bool>::unwrap_or(false)
UnwrapOrFalse(o) == IF o.tag = "some" THEN o.val ELSE FALSE

\* The EnvironmentRowNapi or_insert is given (lines 144-149, 163-168)
NewRowNoHint(e, hint) ==
    [id |-> e.id, label |-> e.label, is_pinned |-> e.is_pinned, repo_hints |-> None]
NewRow(e, hint) ==
    [id |-> e.id, label |-> e.label, is_pinned |-> e.is_pinned, repo_hints |-> hint]

\* map.entry(id).or_insert(row): the row the entry holds afterwards
OrInsertNoLookup(m, row) == row
OrInsert(m, row) ==
    IF \E r \in m : r.id = row.id THEN CHOOSE r \in m : r.id = row.id ELSE row

\* if let Some(pin) = e.is_pinned { entry.is_pinned = Some(entry.is_pinned.unwrap_or(false) || pin) }
MergePinnedOverwrites(old, new) == IF new.tag = "some" THEN new ELSE old
MergePinned(old, new) ==
    IF new.tag = "some" THEN Some(UnwrapOrFalse(old) \/ new.val) ELSE old

\* if entry.label.is_none() { entry.label = e.label.clone(); }
MergeLabelLastWins(old, new) == IF new.tag = "some" THEN new ELSE old
MergeLabel(old, new) == IF old.tag = "none" THEN new ELSE old

\* The body of `for e in list` (lines 144-151, 163-170): the accumulator after row e
MergeRow(m, e, hint) ==
    LET entry == OrInsert(m, NewRow(e, hint))
        upd == [entry EXCEPT !.label = MergeLabel(entry.label, e.label),
                             !.is_pinned = MergePinned(entry.is_pinned, e.is_pinned)]
    IN  (m \ {entry}) \cup {upd}

\* The comparator of rows.sort_by (lines 176-187): -1, 0 or 1
LabelOrEmpty(r) == IF r.label.tag = "some" THEN r.label.val ELSE <<>>

RowCmpCaseSensitive(a, b) ==
    LET pa == UnwrapOrFalse(a.is_pinned)
        pb == UnwrapOrFalse(b.is_pinned)
    IN  IF pa # pb THEN (IF pa THEN -1 ELSE 1)
        ELSE LET c == StrCmp(LabelOrEmpty(a), LabelOrEmpty(b))
             IN  IF c # 0 THEN c ELSE StrCmp(a.id, b.id)
RowCmp(a, b) ==
    LET pa == UnwrapOrFalse(a.is_pinned)
        pb == UnwrapOrFalse(b.is_pinned)
    IN  IF pa # pb THEN (IF pa THEN -1 ELSE 1)
        ELSE LET c == StrCmp(ToLowercase(LabelOrEmpty(a)), ToLowercase(LabelOrEmpty(b)))
             IN  IF c # 0 THEN c ELSE StrCmp(a.id, b.id)

\* slice::sort_by, a stable sort: x goes after the elements that do not compare greater
RECURSIVE InsertSorted(_, _)
InsertSorted(sorted, x) ==
    IF sorted = <<>> THEN <<x>>
    ELSE IF RowCmp(Head(sorted), x) <= 0
    THEN <<Head(sorted)>> \o InsertSorted(Tail(sorted), x)
    ELSE <<x>> \o sorted

RECURSIVE SortBy(_)
SortBy(rows) ==
    IF rows = <<>> THEN <<>>
    ELSE InsertSorted(SortBy(Take(rows, Len(rows) - 1)), rows[Len(rows)])

\* map.into_values().collect(): the rows of the map in any iteration order
IterationOrders(m) ==
    {f \in [1..Cardinality(m) -> m] : \A i, j \in 1..Cardinality(m) : i # j => f[i] # f[j]}

\* Nothing queried yet.  A query is named by the index of its remote, the
\* global query by 0.
GlobalQuery == 0

NothingMerged ==
    [ok |-> {}, failed |-> {}, ids |-> {}, pinned |-> {}, unpinned |-> {},
     repo_all |-> {}, global |-> {}, cur |-> {}, repeated |-> {},
     first_label |-> {}, relabel |-> {}]

\* The history after query q failed
Failed(h, q) == [h EXCEPT !.failed = @ \cup {q}]

\* The history after query q succeeded, before its rows are merged
Succeeded(h, q) == [h EXCEPT !.ok = @ \cup {q}, !.cur = {}]

\* The history after row e of the successful query q
Report(h, e, q) ==
    [h EXCEPT
       !.ids = @ \cup {e.id},
       !.pinned = IF e.is_pinned = Some(TRUE) THEN @ \cup {e.id} ELSE @,
       !.unpinned = IF e.is_pinned = Some(FALSE) THEN @ \cup {e.id} ELSE @,
       !.repo_all = IF q # GlobalQuery THEN @ \cup {<<e.id, q>>} ELSE @,
       !.global = IF q = GlobalQuery THEN @ \cup {e.id} ELSE @,
       !.cur = @ \cup {e.id},
       !.repeated = IF e.id \in h.cur THEN @ \cup {e.id} ELSE @,
       !.first_label = IF e.label # None /\ ~(\E p \in h.first_label : p[1] = e.id)
                       THEN @ \cup {<<e.id, e.label.val>>} ELSE @,
       !.relabel = IF e.label # None
                      /\ (\E p \in h.first_label : p[1] = e.id /\ p[2] # e.label.val)
                   THEN @ \cup {e.id} ELSE @]

EnvInit ==
    /\ origins \in {SortStrings(S) : S \in RemoteSets}
    /\ envPc = "idle"
    /\ oi = 1
    /\ map = {}
    /\ nrows = 0
    /\ result = NotRun
    /\ merged = NothingMerged

EnvOff ==
    /\ origins = <<>>
    /\ envPc = "off"
    /\ oi = 1
    /\ map = {}
    /\ nrows = 0
    /\ result = NotRun
    /\ merged = NothingMerged

\* Lines 128-132: reqwest::Client::builder().build() fails and the call returns the error
ClientBuildFails ==
    /\ envPc = "idle"
    /\ envPc' = "done"
    /\ result' = [kind |-> "error"]
    /\ UNCHANGED <<origins, oi, map, nrows, merged>>
    /\ UNCHANGED notEnv

\* Lines 128-135: the client is built and the by-repo loop starts
ListEnvironmentsStart ==
    /\ envPc = "idle"
    /\ envPc' = "repo"
    /\ UNCHANGED <<origins, oi, map, nrows, result, merged>>
    /\ UNCHANGED notEnv

\* Line 136: the remote is no GitHub URL and is skipped
RepoSkipped ==
    /\ envPc = "repo"
    /\ oi <= Len(origins)
    /\ parse_owner_repo(origins[oi]).tag = "none"
    /\ oi' = oi + 1
    /\ UNCHANGED <<origins, envPc, map, nrows, result, merged>>
    /\ UNCHANGED notEnv

\* Line 142: get_envs fails for this remote, and the loop goes on
RepoQueryFailsAborts ==
    /\ envPc = "repo"
    /\ oi <= Len(origins)
    /\ parse_owner_repo(origins[oi]).tag = "some"
    /\ envPc' = "done"
    /\ result' = [kind |-> "error"]
    /\ merged' = Failed(merged, oi)
    /\ UNCHANGED <<origins, oi, map, nrows>>
    /\ UNCHANGED notEnv

RepoQueryFails ==
    /\ envPc = "repo"
    /\ oi <= Len(origins)
    /\ parse_owner_repo(origins[oi]).tag = "some"
    /\ oi' = oi + 1
    /\ merged' = Failed(merged, oi)
    /\ UNCHANGED <<origins, envPc, map, nrows, result>>
    /\ UNCHANGED notEnv

\* Line 142: get_envs succeeds for this remote
RepoQueryOk ==
    /\ envPc = "repo"
    /\ oi <= Len(origins)
    /\ parse_owner_repo(origins[oi]).tag = "some"
    /\ envPc' = "merge_repo"
    /\ nrows' = 0
    /\ merged' = Succeeded(merged, oi)
    /\ UNCHANGED <<origins, oi, map, result>>
    /\ UNCHANGED notEnv

\* Lines 143-152: the next row of the by-repo response is merged
MergeRepoRow ==
    /\ envPc = "merge_repo"
    /\ nrows < MaxRows
    /\ \E e \in CodeEnvironments :
          LET hint == Some(RepoHint(parse_owner_repo(origins[oi]).val))
          IN  /\ map' = MergeRow(map, e, hint)
              /\ merged' = Report(merged, e, oi)
    /\ nrows' = nrows + 1
    /\ UNCHANGED <<origins, envPc, oi, result>>
    /\ UNCHANGED notEnv

\* The by-repo response is exhausted: the next remote
RepoMergeDone ==
    /\ envPc = "merge_repo"
    /\ envPc' = "repo"
    /\ oi' = oi + 1
    /\ nrows' = 0
    /\ UNCHANGED <<origins, map, result, merged>>
    /\ UNCHANGED notEnv

\* Line 161: the global get_envs fails
GlobalQueryFails ==
    /\ envPc = "repo"
    /\ oi > Len(origins)
    /\ envPc' = "sort"
    /\ merged' = Failed(merged, GlobalQuery)
    /\ UNCHANGED <<origins, oi, map, nrows, result>>
    /\ UNCHANGED notEnv

\* Line 161: the global get_envs succeeds
GlobalQueryOk ==
    /\ envPc = "repo"
    /\ oi > Len(origins)
    /\ envPc' = "merge_global"
    /\ nrows' = 0
    /\ merged' = Succeeded(merged, GlobalQuery)
    /\ UNCHANGED <<origins, oi, map, result>>
    /\ UNCHANGED notEnv

\* Lines 162-171: the next row of the global response is merged
MergeGlobalRow ==
    /\ envPc = "merge_global"
    /\ nrows < MaxRows
    /\ \E e \in CodeEnvironments :
          /\ map' = MergeRow(map, e, None)
          /\ merged' = Report(merged, e, GlobalQuery)
    /\ nrows' = nrows + 1
    /\ UNCHANGED <<origins, envPc, oi, result>>
    /\ UNCHANGED notEnv

\* The global response is exhausted
GlobalMergeDone ==
    /\ envPc = "merge_global"
    /\ envPc' = "sort"
    /\ UNCHANGED <<origins, oi, map, nrows, result, merged>>
    /\ UNCHANGED notEnv

\* Lines 174-188: the rows are collected, sorted and returned
SortRows ==
    /\ envPc = "sort"
    /\ \E rows \in IterationOrders(map) :
          result' = [kind |-> "ok", rows |-> SortBy(rows)]
    /\ envPc' = "done"
    /\ UNCHANGED <<origins, oi, map, nrows, merged>>
    /\ UNCHANGED notEnv

EnvNext ==
    \/ ClientBuildFails
    \/ ListEnvironmentsStart
    \/ RepoSkipped
    \/ RepoQueryFails
    \/ RepoQueryOk
    \/ MergeRepoRow
    \/ RepoMergeDone
    \/ GlobalQueryFails
    \/ GlobalQueryOk
    \/ MergeGlobalRow
    \/ GlobalMergeDone
    \/ SortRows

\* The sort alone: the accumulator as one global response left it
SortIds == {<<"a">>, <<"b">>, <<"c">>}
SortLabels == {<<"Z", "e", "d">>, <<"a", "l", "p", "h", "a">>, <<"A", "l", "p", "h", "a">>}

Accumulators ==
    UNION {{{[id |-> i, label |-> f[i].label, is_pinned |-> f[i].is_pinned,
              repo_hints |-> None] : i \in S}
            : f \in [S -> [label : Opt(SortLabels), is_pinned : Opt(BOOLEAN)]]}
           : S \in SUBSET SortIds}

SortInit ==
    /\ map \in Accumulators
    /\ origins = <<>>
    /\ envPc = "sort"
    /\ oi = 1
    /\ nrows = 0
    /\ result = NotRun
    /\ merged = [NothingMerged EXCEPT
                   !.ok = {GlobalQuery},
                   !.ids = {r.id : r \in map},
                   !.global = {r.id : r \in map},
                   !.cur = {r.id : r \in map},
                   !.pinned = {r.id : r \in {x \in map : x.is_pinned = Some(TRUE)}},
                   !.unpinned = {r.id : r \in {x \in map : x.is_pinned = Some(FALSE)}},
                   !.first_label = {<<r.id, r.label.val>> : r \in {x \in map : x.label # None}}]

SortNext == SortRows


----------------------------------------------------------------------------
(* The decoders called on their own: extract_chatgpt_account_id *)

\* The segments a token is made of: empty, not base64url, and payloads
JwtSegments == {<<>>, <<"h">>, PayloadJ, PayloadK, PayloadN, Payload0}

\* The segments joined by sep
RECURSIVE Join(_, _)
Join(segs, sep) ==
    IF Len(segs) = 0 THEN <<>>
    ELSE IF Len(segs) = 1 THEN segs[1]
    ELSE segs[1] \o <<sep>> \o Join(Tail(segs), sep)

Tokens ==
    {[segments |-> segs, text |-> Join(segs, ".")] :
       segs \in UNION {[1..n -> JwtSegments] : n \in 1..MaxSegments}}

Returned(v) == [kind |-> "returned", val |-> v]

FnOff ==
    /\ jwt = "off"
    /\ claim = NotRun
    /\ remote = "off"
    /\ owner_repo = NotRun

ExtractInit ==
    /\ jwt \in Tokens
    /\ claim = NotRun
    /\ remote = "off"
    /\ owner_repo = NotRun

\* extract_chatgpt_account_id(&token)
ExtractAccountId ==
    /\ claim = NotRun
    /\ claim' = Returned(extract_chatgpt_account_id(jwt.text))
    /\ UNCHANGED <<jwt, remote, owner_repo>>
    /\ UNCHANGED notFn

ExtractNext == ExtractAccountId

----------------------------------------------------------------------------
(* The decoders called on their own: parse_owner_repo *)

\* What a remote URL starts with: the supported shapes, and other hosts
GithubStarts ==
    {<<"g", "i", "t", "@", "g", "i", "t", "h", "u", "b", ".", "c", "o", "m", ":">>,
     <<"s", "s", "h", ":", "/", "/", "g", "i", "t", "@", "g", "i", "t", "h", "u", "b", ".", "c", "o", "m", ":">>,
     <<"h", "t", "t", "p", "s", ":", "/", "/", "g", "i", "t", "h", "u", "b", ".", "c", "o", "m", "/">>,
     <<"h", "t", "t", "p", ":", "/", "/", "g", "i", "t", "h", "u", "b", ".", "c", "o", "m", "/">>,
     <<"g", "i", "t", ":", "/", "/", "g", "i", "t", "h", "u", "b", ".", "c", "o", "m", "/">>,
     <<"g", "i", "t", "h", "u", "b", ".", "c", "o", "m", "/">>}
OtherStarts ==
    {<<"h", "t", "t", "p", "s", ":", "/", "/", "g", "i", "t", "l", "a", "b", ".", "c", "o", "m", "/">>,
     <<"g", "i", "t", "@", "g", "i", "t", "l", "a", "b", ".", "c", "o", "m", ":">>}

\* n slashes
Slashes(n) == [i \in 1..n |-> "/"]

\* start, slashes, owner/repo, an optional .git, slashes; white space around it or not
RemoteText(start, lead, owner, repo, git, trail, padded) ==
    LET u == start \o Slashes(lead) \o owner \o <<"/">> \o repo
             \o (IF git THEN GitSuffix ELSE <<>>) \o Slashes(trail)
    IN  IF padded THEN <<" ">> \o u \o <<"\n">> ELSE u

Remotes ==
    {[start |-> st, lead |-> l, owner |-> <<"o">>, repo |-> <<"r">>, git |-> g,
      trail |-> t, padded |-> pd,
      text |-> RemoteText(st, l, <<"o">>, <<"r">>, g, t, pd)] :
       st \in GithubStarts \cup OtherStarts, l \in 0..MaxSlashes, g \in BOOLEAN,
       t \in 0..MaxSlashes, pd \in BOOLEAN}

ParseInit ==
    /\ remote \in Remotes
    /\ owner_repo = NotRun
    /\ jwt = "off"
    /\ claim = NotRun

\* parse_owner_repo(&origin)
ParseOwnerRepo ==
    /\ owner_repo = NotRun
    /\ owner_repo' = Returned(parse_owner_repo(remote.text))
    /\ UNCHANGED <<jwt, claim, remote>>
    /\ UNCHANGED notFn

ParseNext == ParseOwnerRepo

----------------------------------------------------------------------------
(* The specifications: one per component, the other components at rest *)

InitSession == SessInit /\ SubInit /\ CredOff /\ EnvOff /\ FnOff /\ LockOff

SpecSession == InitSession /\ [][SessNext]_vars

InitCred == CredInit /\ SessInit /\ SubInit /\ EnvOff /\ FnOff /\ LockOff

SpecCred == InitCred /\ [][CredNext]_vars

InitEnv == EnvInit /\ SessInit /\ SubInit /\ CredOff /\ FnOff /\ LockOff

SpecEnv == InitEnv /\ [][EnvNext]_vars

InitSort == SortInit /\ SessInit /\ SubInit /\ CredOff /\ FnOff /\ LockOff

SpecSort == InitSort /\ [][SortNext]_vars

InitExtract == ExtractInit /\ SessInit /\ SubInit /\ CredOff /\ EnvOff /\ LockOff

SpecExtract == InitExtract /\ [][ExtractNext]_vars

InitParse == ParseInit /\ SessInit /\ SubInit /\ CredOff /\ EnvOff /\ LockOff

SpecParse == InitParse /\ [][ParseNext]_vars

InitSubmit == SessInit /\ SubInit /\ CredOff /\ EnvOff /\ FnOff /\ LockOff

SpecSubmit == InitSubmit /\ [][SubNext]_vars

InitLock == SessInit /\ SubInit /\ LockOff /\ CredOff /\ EnvOff /\ FnOff

SpecLock == InitLock /\ [][LockNext]_vars

SpecLockFair == SpecLock /\ LockFairness

\* A session with every operation of CodexSession and a stream that speaks
SubmitBeside == Len(submits) < MaxStepSubmits /\ Submit

QueueNext == SessNext \/ SubmitBeside

InitQueue == SessInit /\ SubInit /\ LockOff /\ CredOff /\ EnvOff /\ FnOff

SpecQueue == InitQueue /\ [][QueueNext]_vars

----------------------------------------------------------------------------
(* Claims about credential resolution, checked under SpecCred *)

\* The collaborators a resolution read: the persisted record, the fallback manager
ReadsNoSource(calls) ==
    \A i \in 1..Len(calls) : calls[i] \notin {"auth.json", "AuthManager"}

Consulted(calls, what) == \E i \in 1..Len(calls) : calls[i] = what

HasExplicitToken == config.bearer_token.tag = "some"

\* C1, as stated: with an explicit bearer token in the configuration, create_backend
\* and build_chatgpt_headers attach exactly that token, attach the configuration's
\* account id if given and none otherwise, and read neither the persisted record
\* nor the fallback manager.
C1_ExplicitTokenAttached ==
    HasExplicitToken =>
        /\ backend.kind = "http" =>
              /\ backend.client.bearer = config.bearer_token
              /\ backend.client.account = config.chatgpt_account_id
              /\ ReadsNoSource(backend.client.calls)
        /\ headers.kind = "headers" =>
              /\ headers.h.bearer = config.bearer_token
              /\ headers.h.account = config.chatgpt_account_id
              /\ ReadsNoSource(headers.h.calls)

\* C1, amended: with an explicit bearer token in the configuration, neither
\* function reads the persisted record or the fallback manager; create_backend
\* (when it builds the HTTP client) attaches exactly that token and the
\* configuration's account id, if any; build_chatgpt_headers does the same, except
\* that a token or an account id that is not a valid header value is left out.
C1_ExplicitTokenWins ==
    HasExplicitToken =>
        /\ backend.kind = "http" =>
              /\ backend.client.bearer = config.bearer_token
              /\ backend.client.account = config.chatgpt_account_id
              /\ ReadsNoSource(backend.client.calls)
        /\ backend.kind = "mock" => config.mock = Some(TRUE)
        /\ backend.kind = "error" => ~world.http_ok
        /\ headers.kind = "headers" =>
              /\ headers.h.bearer =
                    IF \A i \in 1..Len(config.bearer_token.val) :
                          config.bearer_token.val[i] \notin {"\n", "\r"}
                    THEN config.bearer_token ELSE None
              /\ headers.h.account =
                    IF /\ config.chatgpt_account_id.tag = "some"
                       /\ \A i \in 1..Len(config.chatgpt_account_id.val) :
                             config.chatgpt_account_id.val[i] \notin {"\n", "\r"}
                    THEN config.chatgpt_account_id ELSE None
              /\ ReadsNoSource(headers.h.calls)

\* C1's case: an explicit token and account id in the configuration, a persisted
\* record and a manager that both hold a token, and both resolutions done.
C1_Witness ==
    /\ HasExplicitToken
    /\ config.chatgpt_account_id.tag = "some"
    /\ world.dir_exists
    /\ world.auth_file.ok /\ AccessToken(world.auth_file) # <<>>
    /\ world.manager.tag = "some" /\ world.manager.val.token.ok
    /\ world.manager.val.token.val # <<>>
    /\ backend.kind = "http" /\ backend.client.bearer = config.bearer_token
    /\ headers.kind = "headers" /\ headers.h.bearer = config.bearer_token
    /\ headers.h.account = config.chatgpt_account_id

\* The persisted record yields a token: no explicit token, auth.json read, token not empty
FileYieldsToken ==
    /\ config.bearer_token.tag = "none"
    /\ world.auth_file.ok
    /\ AccessToken(world.auth_file) # <<>>

\* C2, as stated: the sources are tried in the order configuration, persisted
\* record, fallback manager, and the first that yields a non-empty token wins:
\* once the record has yielded a token the manager is not consulted and the
\* bearer token attached is the record's.
C2_FirstSourceWins ==
    /\ (backend.kind = "http" /\ FileYieldsToken
            /\ Consulted(backend.client.calls, "auth.json")) =>
          /\ ~Consulted(backend.client.calls, "AuthManager")
          /\ backend.client.bearer = Some(AccessToken(world.auth_file))
    /\ (headers.kind = "headers" /\ FileYieldsToken
            /\ Consulted(headers.h.calls, "auth.json")) =>
          /\ ~Consulted(headers.h.calls, "AuthManager")
          /\ headers.h.bearer = Some(AccessToken(world.auth_file))

----------------------------------------------------------------------------
(* Claims about the session bridge, checked under SpecSession *)

OkSome(v) == [ok |-> TRUE, val |-> Some(v)]
OkNone == [ok |-> TRUE, val |-> None]
IsSomeEvent(res) == res.ok /\ res.val.tag = "some"

\* The indices 1..n as a sequence
Indices(n) == [i \in 1..n |-> i]

\* The encodings next_event has handed to its callers, in completion order
ReturnedEvents ==
    LET some == SelectSeq(returned, LAMBDA r : IsSomeEvent(r.res))
    IN  [i \in 1..Len(some) |-> some[i].res.val.val]

\* The encodings of the events among the first nrecv items of the stream, in emission order
DeliveredStreamEvents ==
    LET idx == SelectSeq(Indices(nrecv), LAMBDA i : emitted[i].kind = "event")
    IN  [k \in 1..Len(idx) |-> Json(Event(idx[k], emitted[idx[k]].ser))]

\* C3, as stated: the first completed next_event call returns the configured event
\* itself, that event is returned exactly once, and every later result comes from
\* the stream.
C3_FirstReturnsConfigured ==
    returned # <<>> =>
        /\ returned[1].res = OkSome(Json(configured))
        /\ \A i \in 2..Len(returned) : returned[i].src = "stream"

\* C3, amended: the first completed next_event call is the call that consumed the
\* configured event, and its result is that event's encoding or, when the event
\* cannot be encoded, the serialization error; the configured event is consumed by
\* exactly one call and every other result comes from the stream, after it.
C3_ConfiguredFirstOnce ==
    returned # <<>> =>
        /\ returned[1].src = "pending"
        /\ returned[1].n = 0
        /\ IF configured.ser
           THEN returned[1].res = OkSome(Json(configured))
           ELSE ~returned[1].res.ok
        /\ \A i \in 2..Len(returned) :
              returned[i].src = "stream" /\ returned[i].n >= 1
        /\ pending = <<>>

\* C3's case: the configured event was returned and a stream event after it.
C3_Witness ==
    /\ Len(returned) >= 2
    /\ returned[1].res = OkSome(Json(configured))
    /\ IsSomeEvent(returned[2].res)

\* C4, as stated: for a single consumer, the events returned are the configured
\* event followed by the events of the stream handed out so far, in emission
\* order, none lost, duplicated or reordered.
C4_NoEventLost ==
    (~concurrent /\ returned # <<>>) =>
        ReturnedEvents = <<Json(configured)>> \o DeliveredStreamEvents

\* C4, amended: for a single consumer, the completed calls correspond one to one
\* and in order to the configured event followed by the items the stream has
\* handed out; a call's result is its event's encoding, or the serialization
\* error when the event cannot be encoded (that event is then not delivered
\* again); no event is duplicated or reordered.
C4_OrderedOutcomes ==
    (~concurrent /\ returned # <<>>) =>
        /\ Len(returned) = nrecv + 1
        /\ returned[1].src = "pending"
        /\ IF configured.ser
           THEN returned[1].res = OkSome(Json(configured))
           ELSE ~returned[1].res.ok
        /\ \A i \in 1..nrecv :
              LET r == returned[i + 1]
                  it == emitted[i]
              IN  /\ r.src = "stream"
                  /\ r.n = i
                  /\ IF it.kind = "event"
                     THEN IF it.ser THEN r.res = OkSome(Json(Event(i, TRUE)))
                                    ELSE ~r.res.ok
                     ELSE ~IsSomeEvent(r.res)

\* C4's case: one consumer has received the configured event and two stream events.
C4_Witness ==
    /\ ~concurrent
    /\ Len(returned) = 3
    /\ \A i \in 1..3 : IsSomeEvent(returned[i].res)

\* C5, as stated: a stream failure met with the pending queue empty gives the
\* "no more events" result when it is the clean closure, and an error carrying the
\* underlying message when it is any other failure.
C5_OnlyClosureEndsStream ==
    \A i \in 1..Len(returned) :
        LET r == returned[i] IN
        (r.src = "stream" /\ emitted[r.n].kind # "event") =>
            /\ emitted[r.n].kind = "closed" => r.res = OkNone
            /\ emitted[r.n].kind = "error" =>
                  r.res = [ok |-> FALSE, err |-> emitted[r.n].msg]

----------------------------------------------------------------------------
(* Claims about the environment aggregator *)

IsOk == result.kind = "ok"
ResultRows == {result.rows[i] : i \in 1..Len(result.rows)}
IsPinned(r) == r.is_pinned = Some(TRUE)

\* C6: a row is pinned exactly when some merged source reported pinned=true
\* for its id, in the accumulator at every step and in the returned list, and
\* no step takes a row that is pinned to one that is not.
C6_PinnedIsOr ==
    /\ [](/\ \A r \in map : IsPinned(r) <=> r.id \in merged.pinned
          /\ IsOk => \A r \in ResultRows : IsPinned(r) <=> r.id \in merged.pinned)
    /\ [][\A r \in map : IsPinned(r) =>
             \A r2 \in map' : r2.id = r.id => IsPinned(r2)]_vars

\* An id reported both pinned=false and pinned=true is returned pinned
C6_Witness ==
    /\ IsOk
    /\ \E r \in ResultRows :
          /\ IsPinned(r)
          /\ r.id \in merged.unpinned
          /\ r.id \in merged.pinned

\* The order of the returned list: pinned first, then lower-cased label,
\* then id
OrderedBefore(x, y) ==
    LET px == IsPinned(x)
        py == IsPinned(y)
        lx == ToLowercase(LabelOrEmpty(x))
        ly == ToLowercase(LabelOrEmpty(y))
    IN  \/ px /\ ~py
        \/ px = py /\ StrCmp(lx, ly) < 0
        \/ px = py /\ lx = ly /\ StrCmp(x.id, y.id) < 0

ExampleRows ==
    {[id |-> <<"b">>, label |-> Some(<<"Z", "e", "d">>), is_pinned |-> Some(FALSE), repo_hints |-> None],
     [id |-> <<"a">>, label |-> Some(<<"a", "l", "p", "h", "a">>), is_pinned |-> Some(TRUE), repo_hints |-> None],
     [id |-> <<"c">>, label |-> Some(<<"A", "l", "p", "h", "a">>), is_pinned |-> Some(FALSE), repo_hints |-> None]}

\* C7: the returned list holds each row of the accumulator once, every row
\* before the rows that follow it in the order (pinned, lower-cased label,
\* id), whatever order the accumulator was iterated in; the example rows come
\* out as a, c, b.
C7_SortedPermutation ==
    IsOk =>
      /\ Len(result.rows) = Cardinality(map)
      /\ ResultRows = map
      /\ \A i, j \in 1..Len(result.rows) :
            i < j => OrderedBefore(result.rows[i], result.rows[j])
      /\ map = ExampleRows =>
            [i \in 1..3 |-> result.rows[i].id] = <<<<"a">>, <<"c">>, <<"b">>>>

\* The example accumulator has been sorted
C7_Witness ==
    /\ IsOk
    /\ map = ExampleRows
    /\ Len(result.rows) = 3
    /\ result.rows[1].id = <<"a">>

\* The by-repo queries that returned id, and the hint of the first of them
RepoQueriesOf(id) == {p[2] : p \in {x \in merged.repo_all : x[1] = id}}
FirstRepoHint(id) ==
    LET q == CHOOSE q \in RepoQueriesOf(id) : \A o \in RepoQueriesOf(id) : q <= o
    IN  Some(RepoHint(parse_owner_repo(origins[q]).val))
HintAsClaimed(r) ==
    IF RepoQueriesOf(r.id) = {} THEN r.repo_hints = None
    ELSE r.repo_hints = FirstRepoHint(r.id)

\* C8: a row has a repo hint exactly when a successful by-repo query
\* returned its id, the hint is the owner/repo of the first such query in the
\* ascending order of the remotes, no step changes the hint of a row, and a
\* row the global pass adds has none.
C8_HintFromFirstRepoQuery ==
    /\ [](/\ \A i, j \in 1..Len(origins) : i < j => StrCmp(origins[i], origins[j]) < 0
          /\ \A r \in map : HintAsClaimed(r)
          /\ IsOk => \A r \in ResultRows : HintAsClaimed(r))
    /\ [][/\ \A r \in map : \A r2 \in map' : r2.id = r.id => r2.repo_hints = r.repo_hints
          /\ envPc = "merge_global" =>
                \A r2 \in map' : (\A r \in map : r.id # r2.id) => r2.repo_hints = None]_vars

\* Two remotes returned a, the global query returned a and b: a has the
\* first remote's hint and b has none
C8_Witness ==
    /\ IsOk
    /\ RepoQueriesOf(<<"a">>) = {1, 2}
    /\ RepoQueriesOf(<<"b">>) = {}
    /\ merged.global = {<<"a">>, <<"b">>}
    /\ \E r \in ResultRows : r.id = <<"a">> /\ r.repo_hints = Some(<<"o", "/", "r">>)
    /\ \E r \in ResultRows : r.id = <<"b">> /\ r.repo_hints = None

\* C9: no two rows of the accumulator have the same id, at any step; the
\* returned list has one row for each id a successful query returned and no
\* other row.
C9_OneRowPerId ==
    /\ \A r1, r2 \in map : r1.id = r2.id => r1 = r2
    /\ {r.id : r \in map} = merged.ids
    /\ IsOk =>
          /\ \A i, j \in 1..Len(result.rows) :
                result.rows[i].id = result.rows[j].id => i = j
          /\ {r.id : r \in ResultRows} = merged.ids

\* One id, repeated in one response and reported by a remote and by the
\* global query, is returned in one row
C9_Witness ==
    /\ IsOk
    /\ <<"a">> \in merged.repeated
    /\ RepoQueriesOf(<<"a">>) # {}
    /\ <<"a">> \in merged.global
    /\ Len(result.rows) = 1

\* The queries the call makes: one for each remote that names a GitHub
\* repository, and the global one
AllQueries ==
    {i \in 1..Len(origins) : parse_owner_repo(origins[i]).tag = "some"} \cup {GlobalQuery}

----------------------------------------------------------------------------
(* Claims about extract_chatgpt_account_id, checked under SpecExtract *)

\* The account id a payload segment carries: the segment decodes to JSON
\* whose auth claim holds the account id as a string
CarriedAccountId(seg) ==
    IF ~Base64UrlNoPadDecode(seg).ok THEN None
    ELSE LET v == JsonFromSlice(Base64UrlNoPadDecode(seg).val)
         IN  IF v.ok /\ v.val.t = "object" /\ v.val.key = AuthClaim
                /\ v.val.val.t = "object" /\ v.val.val.key = AccountClaim
                /\ v.val.val.val.t = "string"
             THEN Some(v.val.val.val.s) ELSE None

ThreeNonEmptySegments(t) ==
    /\ Len(t.segments) = 3
    /\ \A i \in 1..3 : t.segments[i] # <<>>

\* C11: extract_chatgpt_account_id returns the account id of the payload
\* when the token is exactly three non-empty segments and the payload carries
\* one, and none for every other token.
C11_ExactlyThreeSegments ==
    claim # NotRun =>
       claim.val = IF ThreeNonEmptySegments(jwt) THEN CarriedAccountId(jwt.segments[2])
                   ELSE None

----------------------------------------------------------------------------
(* Claims about parse_owner_repo, checked under SpecParse *)

\* C12: parse_owner_repo returns the owner and the repo of every URL of a
\* supported shape, without the .git suffix and without the slashes before
\* the owner or after the repo, and no result for a URL of another host.
C12_OwnerRepoOfSupportedShapes ==
    owner_repo # NotRun =>
       owner_repo.val = IF remote.start \in GithubStarts
                        THEN Some(<<remote.owner, remote.repo>>)
                        ELSE None

----------------------------------------------------------------------------
(* More claims about credential resolution, checked under SpecCred *)

IsMock == config.mock = Some(TRUE)

\* Neither an explicit token nor a home override, and no home to be found
HomeUnresolved ==
    /\ config.bearer_token = None
    /\ config.codex_home = None
    /\ ~world.find_home_ok

BackendFailsOnlyWithoutHome ==
    (backend # NotRun /\ ~IsMock /\ world.http_ok) =>
       (backend.kind = "error" <=> HomeUnresolved)

NativeFailsOnlyWithoutHome ==
    native # NotRun =>
       (native.kind = "error" <=> native.codex_home = None /\ ~world.find_home_ok)

HeadersFailWithoutHome ==
    (headers # NotRun /\ HomeUnresolved) => headers.kind = "error"

\* C13: with no explicit token, no home override and no home directory to be
\* found, a backend operation, the environment listing and the construction
\* of NativeCodex each fail with an error, and credential resolution produces
\* an error in no other case.
C13_UnresolvableHomeFails ==
    /\ BackendFailsOnlyWithoutHome
    /\ NativeFailsOnlyWithoutHome
    /\ HeadersFailWithoutHome

----------------------------------------------------------------------------
(* More claims about the session bridge, checked under SpecSession *)

\* C14: every close call asks the manager to remove the conversation of
\* this session, leaves the manager without it, and returns success, whether
\* or not the manager still held the conversation.
C14_CloseAlwaysSucceeds ==
    closed # NotClosed =>
       /\ closed.asked = conversation_id
       /\ closed.res = [ok |-> TRUE]
       /\ ~registered

\* A close of a session already closed, drained, with a next_event call in flight
C14_Witness ==
    /\ closed # NotClosed
    /\ ~closed.removed
    /\ closed.res.ok
    /\ pending = <<>>
    /\ InFlight # {}
\* The submit calls whose payload decoded, in order
Decoded == SelectSeq(submits, LAMBDA c : SubmissionFromStr(c.json).ok)

\* C15: the handle has been given the decoded submission of each submit
\* call that decoded, once each, in call order, as decoded; such a call
\* returns success when the handle accepted and otherwise an error with the
\* handle's message; a call whose payload does not decode returns an error
\* and gives the handle nothing; no submit call changes the pending queue.
C15_SubmitForwardsOnce ==
    /\ [](/\ handle = [i \in 1..Len(Decoded) |-> SubmissionFromStr(Decoded[i].json).val]
          /\ \A i \in 1..Len(submits) :
                LET c == submits[i]
                IN  IF SubmissionFromStr(c.json).ok
                    THEN /\ c.out # None
                         /\ c.res = IF c.out.val.ok THEN [ok |-> TRUE]
                                    ELSE [ok |-> FALSE, err |-> c.out.val.err]
                    ELSE /\ c.out = None
                         /\ ~c.res.ok)
    /\ [][submits' # submits => pending' = pending]_vars

\* Three calls on a session whose queue still holds the configured event:
\* one not decoded, one accepted, one refused by the handle
C15_Witness ==
    /\ pending # <<>>
    /\ Len(submits) = 3
    /\ Len(handle) = 2
    /\ \E i \in 1..3 : submits[i].out = None
    /\ \E i \in 1..3 : submits[i].res.ok
    /\ \E i \in 1..3 : submits[i].out # None /\ ~submits[i].res.ok
InCalls(cl, what) == \E i \in 1..Len(cl.calls) : cl.calls[i] = what

\* No explicit token, and a home directory (given or found)
ChainStarts ==
    /\ config.bearer_token = None
    /\ config.codex_home # None \/ world.find_home_ok

\* The persisted record cannot be read or parsed, or holds no token
RecordYieldsNoToken ==
    \/ ~world.auth_file.ok
    \/ AccessToken(world.auth_file) = <<>>

\* The manager has no credential, or fails to give its token, or gives an empty one
ManagerYieldsNoToken ==
    \/ world.manager = None
    \/ ~world.manager.val.token.ok
    \/ world.manager.val.token.val = <<>>

BackendFallsThrough ==
    (backend # NotRun /\ ~IsMock /\ world.http_ok /\ ChainStarts /\ RecordYieldsNoToken) =>
       /\ backend.kind = "http"
       /\ InCalls(backend.client, "AuthManager")
       /\ ManagerYieldsNoToken => backend.client.bearer = None

HeadersFallThrough ==
    (headers # NotRun /\ ChainStarts /\ RecordYieldsNoToken) =>
       /\ headers.kind = "headers"
       /\ InCalls(headers.h, "AuthManager")
       /\ ManagerYieldsNoToken => headers.h.bearer = None

\* C16: with no explicit token, when the persisted record yields no token
\* (the home directory or the record is missing, the record is unreadable or
\* malformed, or its token is empty) the fallback manager is consulted, and
\* when the manager yields none either, resolution ends without a bearer
\* token and without an error; in create_backend and in
\* build_chatgpt_headers.
C16_FailuresFallThrough ==
    /\ BackendFallsThrough
    /\ HeadersFallThrough
\* The persisted record holds a token
RecordToken == AccessToken(world.auth_file)
RecordYieldsToken == world.auth_file.ok /\ RecordToken # <<>>

\* The account id that goes with the record's token: the record's, or the
\* one decoded from the token
RecordAccount ==
    IF FileAccountId(world.auth_file) # None THEN FileAccountId(world.auth_file)
    ELSE extract_chatgpt_account_id(RecordToken)

BackendKeepsRecordAccount ==
    (/\ backend # NotRun
     /\ backend.kind = "http"
     /\ ChainStarts /\ world.dir_exists /\ RecordYieldsToken
     /\ backend.client.bearer = Some(RecordToken)) =>
       backend.client.account = RecordAccount

HeadersKeepRecordAccount ==
    (/\ headers # NotRun
     /\ ChainStarts /\ RecordYieldsToken
     /\ headers.h.bearer = Some(RecordToken)) =>
       headers.h.account = RecordAccount

\* C17: when the bearer token attached is the persisted record's, the
\* account id attached is the record's account id, or without one the id
\* decoded from the record's token, or none; in create_backend and in
\* build_chatgpt_headers.
C17_RecordAccountKept ==
    /\ BackendKeepsRecordAccount
    /\ HeadersKeepRecordAccount
\* The account id that goes with the manager's token: the manager's, or the
\* one decoded from the token
ManagerAccount ==
    IF world.manager.val.account_id # None THEN world.manager.val.account_id
    ELSE extract_chatgpt_account_id(world.manager.val.token.val)

\* The pairs of bearer token and account id that come from one source, or
\* from none
OneSourcePairs ==
    {<<None, None>>}
    \cup (IF config.bearer_token # None
          THEN {<<config.bearer_token, config.chatgpt_account_id>>} ELSE {})
    \cup (IF RecordYieldsToken THEN {<<Some(RecordToken), RecordAccount>>} ELSE {})
    \cup (IF ~ManagerYieldsNoToken
          THEN {<<Some(world.manager.val.token.val), ManagerAccount>>} ELSE {})

\* C18: the bearer token and the account id attached at the end of a
\* resolution come from one source (the config, the persisted record or the
\* manager), and no account id is attached without a bearer token; in
\* create_backend and in build_chatgpt_headers.
C18_TokenAndAccountFromOneSource ==
    /\ (backend # NotRun /\ backend.kind = "http") =>
          <<backend.client.bearer, backend.client.account>> \in OneSourcePairs
    /\ headers # NotRun =>
          <<headers.h.bearer, headers.h.account>> \in OneSourcePairs

----------------------------------------------------------------------------
(* More claims about the environment aggregator, checked under SpecEnv *)

\* The first label reported for the id of r, in the order of the merge
LabelAsClaimed(r) ==
    IF \E p \in merged.first_label : p[1] = r.id
    THEN \E p \in merged.first_label : p[1] = r.id /\ r.label = Some(p[2])
    ELSE r.label = None

\* C19: the label of a row is the first label reported for its id in the
\* order of the merge, and absent when none was reported, in the accumulator
\* at every step and in the returned list; no step changes the label of a row
\* that has one.
C19_LabelFirstWriteWins ==
    /\ [](/\ \A r \in map : LabelAsClaimed(r)
          /\ IsOk => \A r \in ResultRows : LabelAsClaimed(r))
    /\ [][\A r \in map : r.label # None =>
             \A r2 \in map' : r2.id = r.id => r2.label = r.label]_vars

\* An id reported with one label and later with another is returned with
\* the first
C19_Witness ==
    /\ IsOk
    /\ \E r \in ResultRows :
          /\ r.id \in merged.relabel
          /\ <<r.id, r.label.val>> \in merged.first_label

----------------------------------------------------------------------------
(* Claims about next_event on a non-empty queue, checked under SpecSession *)

\* A step in which a next_event call returns
Returns == Len(returned') = Len(returned) + 1
LastReturned == returned'[Len(returned')]

\* The stream is as it was: nothing read from it, no call waiting on it that
\* was not, and the items it has still to deliver the same
StreamUntouched ==
    /\ nrecv' = nrecv
    /\ emitted' = emitted
    /\ call' = call

\* C20, as stated: a call that finds the queue non-empty returns the front
\* element
C20_ReturnsFrontElement ==
    [][(pending # <<>> /\ Returns) =>
          LastReturned.res = [ok |-> TRUE, val |-> Some(Json(Head(pending)))]]_vars

\* C20: while the queue is non-empty no next_event call starts a read of
\* the stream; a call that returns then has removed the front element and
\* nothing else from the queue, returns that element serialized or the error
\* of serializing it, and leaves the stream untouched.
C20_PopLeavesStreamUntouched ==
    [][pending # <<>> =>
          /\ \A c \in Callers : call'[c] = "awaiting" => call[c] = "awaiting"
          /\ Returns =>
                /\ pending' = Tail(pending)
                /\ returned' = Append(returned, LastReturned)
                /\ LastReturned.res = MapSome(serialize_event(Head(pending)))
                /\ StreamUntouched]_vars

\* The configured event has been popped and returned while the stream holds
\* items nobody has read
C20_Witness ==
    /\ pending = <<>>
    /\ Len(returned) = 1
    /\ returned[1].res = [ok |-> TRUE, val |-> Some(Json(configured))]
    /\ nrecv = 0
    /\ Len(emitted) >= 2
    /\ InFlight = {}

----------------------------------------------------------------------------
(* Claims about the pending-queue lock *)

\* The calls that were handed the configured event, by their place in the log
ConfiguredReturns == {i \in 1..Len(returned) : returned[i].n = 0}

\* C21 as stated: under any interleaving of concurrent next_event calls the
\* configured event is returned by at most one call, and once it has left the
\* queue some caller has received it.
C21_ReturnedToExactlyOneCaller ==
    /\ Cardinality(ConfiguredReturns) <= 1
    /\ (session = "open" /\ pending = <<>>) =>
          \E i \in ConfiguredReturns : returned[i].res = OkSome(Json(configured))

\* C21: under any interleaving of concurrent next_event calls the configured
\* event is handed to at most one call; it stays in the queue until that call
\* takes it, and that call returns its encoding, or the serialization error when
\* the event cannot be encoded.
C21_HandedToExactlyOneCall ==
    /\ Cardinality(ConfiguredReturns) <= 1
    /\ session = "open" => pending \in {<<>>, <<configured>>}
    /\ (session = "open" /\ pending # <<>>) => ConfiguredReturns = {}
    /\ (session = "open" /\ pending = <<>>) =>
          \E i \in ConfiguredReturns :
             /\ returned[i].src = "pending"
             /\ returned[i].res = MapSome(serialize_event(configured))

\* Two callers raced for the configured event: one received it, the other found
\* the queue empty and waits on the stream
C21_Witness ==
    /\ concurrent
    /\ returned = <<[src |-> "pending", n |-> 0, res |-> OkSome(Json(configured))]>>
    /\ \E c, d \in Callers :
          /\ c # d
          /\ call[c] = "awaiting"
          /\ call[d] = "idle"

\* The guard is held only by a caller between its lock() and the end of its pop
GuardOnlyForThePop ==
    /\ lock # None => lock.val \in Callers /\ call[lock.val] \in {"locked", "popping"}
    /\ \A c \in Callers : call[c] = "awaiting" => lock # Some(c)

\* C22: the pending-queue lock is held only for the pop and is released before
\* next_event awaits the stream, so while a next_event call is suspended on the
\* silent stream a close whose remove_conversation returns, a submit whose
\* submit_with_id returns and another next_event call all run to completion
\* (the next_event call to its return or to its own suspension).
C22_SuspendedCallBlocksNothing ==
    /\ []GuardOnlyForThePop
    /\ (Suspended # {} /\ closing = "removing") ~> (closing = "idle")
    /\ (Suspended # {} /\ submitting # None) ~> (submitting = None)
    /\ \A c \in Callers :
          (Suspended # {} /\ call[c] = "locking") ~> (call[c] \in {"idle", "awaiting"})

\* A next_event call is suspended on the silent stream, the lock is free, and a
\* close, a submit and another next_event call have each completed beside it
C22_Witness ==
    /\ Suspended # {}
    /\ lock = None
    /\ overtook = {"close", "submit", "next_event"}
    /\ closed # NotClosed
    /\ \E i \in 1..Len(submits) : submits[i].out # None

----------------------------------------------------------------------------
(* Claims about the debug flag *)

\* What a run of create_backend resolved: the sources it consulted in order and
\* the credentials it attached, or its error; the diagnostics it printed left out
Resolution(b) ==
    IF b.kind = "http"
    THEN [kind |-> "http", calls |-> b.client.calls, bearer |-> b.client.bearer,
          account |-> b.client.account, user_agent |-> b.client.user_agent]
    ELSE b

\* The same disk and manager state with CODEX_DEBUG the other way
OtherDebug(w) == [w EXCEPT !.debug = ~@]

\* C23: the debug flag does not interfere with credential resolution: the run
\* of create_backend and the run on the same configuration, disk and manager
\* state with the debug flag the other way consult the same sources in the same
\* order and end with the same bearer token, account id and user agent, or the
\* same error.
C23_DebugDoesNotInterfere ==
    backend # NotRun =>
        Resolution(backend) = Resolution(create_backend(config, OtherDebug(world)))

\* A run with the debug flag set that went through the record and the manager,
\* printed its diagnostics and attached a token and an account id, while the run
\* without the flag prints nothing
C23_Witness ==
    /\ backend # NotRun
    /\ backend.kind = "http"
    /\ world.debug
    /\ backend.client.calls = <<"metadata", "auth.json", "AuthManager">>
    /\ backend.client.bearer # None
    /\ backend.client.account # None
    /\ backend.client.diag >= 4
    /\ create_backend(config, OtherDebug(world)).client.diag = 0

----------------------------------------------------------------------------
(* Claims about the two credential resolvers side by side *)

\* The configuration and the sources hold only texts a header can carry, and
\* the home directory is found and exists
PlainInputs ==
    /\ world.http_ok /\ world.find_home_ok /\ world.dir_exists
    /\ config.mock = None
    /\ config.bearer_token # None => HeaderValueOk(config.bearer_token.val)
    /\ config.chatgpt_account_id # None => HeaderValueOk(config.chatgpt_account_id.val)

\* C24: build_chatgpt_headers mirrors create_backend: for every configuration,
\* persisted record and fallback-manager state, the bearer token and account id
\* placed in the request headers equal the bearer token and account id attached
\* to the backend client.
C24_HeadersMirrorBackend ==
    (PlainInputs /\ backend # NotRun /\ headers # NotRun) =>
        /\ backend.kind = "http"
        /\ headers.h.bearer = backend.client.bearer
        /\ headers.h.account = backend.client.account

----------------------------------------------------------------------------
(* Claims about the pending queue as a whole *)

\* A step in which conversation.next_event() handed an item to a caller
DeliversFromStream == Returns /\ LastReturned.src = "stream"

\* A step of close, of submit, or of the stream producing an item
BesidesNextEvent == closed' # closed \/ submits' # submits \/ emitted' # emitted

\* C25: in every reachable state of a session the pending queue holds at most
\* one event, and after creation its length never increases: the items of the
\* stream are returned directly and never enter it, close and submit leave it
\* unchanged, and a next_event call issued after close, with the configured
\* event not yet consumed, still pops that event and returns it as it would
\* have before the close.
C25_PendingOnlyShrinks ==
    /\ [](Len(pending) <= 1 /\ (pending # <<>> => pending = <<configured>>))
    /\ [][/\ session = "open" => Len(pending') <= Len(pending)
          /\ DeliversFromStream => pending' = pending
          /\ BesidesNextEvent => pending' = pending
          /\ (closed # NotClosed /\ pending # <<>> /\ Returns) =>
                /\ pending' = <<>>
                /\ LastReturned = [src |-> "pending", n |-> 0,
                                   res |-> MapSome(serialize_event(configured))]]_vars

\* close returned while the configured event was still queued, a submit went
\* through, and afterwards next_event returned the configured event and then an
\* item of the stream, the queue staying empty
C25_Witness ==
    /\ closed # NotClosed
    /\ closed.left = 1
    /\ submits # <<>>
    /\ pending = <<>>
    /\ Len(returned) = 2
    /\ returned[1] = [src |-> "pending", n |-> 0, res |-> OkSome(Json(configured))]
    /\ returned[2].src = "stream"
    /\ IsSomeEvent(returned[2].res)

=============================================================================
